---- MODULE Spec2Model ----
(***************************************************************************)
(* Model of src/src/channel.rs: the balanced-channel builders (Tonic and   *)
(* Openssl), the Change Bridge task each of them spawns, and the Channel / *)
(* ChannelFuture dispatch over the backend variants.                       *)
(*                                                                         *)
(* The tokio mpsc queues are modelled by their contract: a bounded FIFO    *)
(* whose send suspends while the queue is full, fails once the receiver is *)
(* gone, and whose recv yields queued items first and None only when the   *)
(* queue is empty and every Sender has been dropped.  The backends (tonic  *)
(* balance channel, OpenSslChannel, the boxed custom service) are opaque:  *)
(* what they answer to poll_ready / call / poll is a nondeterministic      *)
(* input of the actions.                                                   *)
(***************************************************************************)
EXTENDS Naturals, Sequences, FiniteSets

\* ------------------------------------------------------------------ bounds
MaxBuf == 2

MaxEvents == 4

MaxClones == 1

MaxCalls == 1

\* ------------------------------------------------------------ input sets
Keys == {"a"}

Vals == {"x"}

Pubs == {"p1", "p2"}

Builders == {"Tonic", "Openssl", "Custom"}

NoVal == "-"

None == [tag |-> "None", key |-> "-", val |-> "-"]

\* enum Change<K, V> { Insert(K, V), Remove(K) }
Change == [tag : {"Insert"}, key : Keys, val : Vals]
            \cup [tag : {"Remove"}, key : Keys, val : {NoVal}]

VARIABLES
    builder,      \* which constructor made the Channel (Custom: made outside)
    buffer_size,  \* the argument of balanced_channel
    bqCap,        \* capacity of the backend's own update queue
    sinkq,        \* the bridge mpsc queue (bridge_tx -> rx)
    rxAlive,      \* rx (owned by the bridge task) has not been dropped
    pubSt,        \* per EndpointUpdater handle: idle / suspended / failed / dropped
    pubEv,        \* the event of a suspended send
    pc,           \* the bridge task: recv / send / done / absent
    held,         \* the bridge's local `change` (already translated)
    bq,           \* the backend update queue (tx -> backend discover stream)
    bqClosed,     \* the backend dropped its receiver (Channel torn down)
    chans,        \* the Channel values in existence (original and clones)
    readyOut,     \* what the last Channel::poll_ready returned
    futs,         \* the ChannelFutures returned by Channel::call
    handles,      \* the backend futures made by the backend's call; futs[j] owns handles[j]
    readyIn,      \* history: the backend answers the last poll_ready consumed
    accepted,     \* history: events whose send into the sink returned Ok
    nRecv,        \* history: number of events rx.recv() has yielded
    fwdLog        \* history: every completed tx.send(change).await

vars == <<builder, buffer_size, bqCap, sinkq, rxAlive, pubSt, pubEv, pc, held,
          bq, bqClosed, chans, readyOut, futs, handles, readyIn,
          accepted, nRecv, fwdLog>>

bridgeVars == <<sinkq, rxAlive, pubSt, pubEv, pc, held, bq, bqClosed,
                accepted, nRecv, fwdLog>>

chanVars == <<chans, readyOut, futs, handles, readyIn>>

cfgVars == <<builder, buffer_size, bqCap>>

\* ------------------------------------------------------- pure functions

\* The backend's own Change enum: tonic::transport::channel::Change for the
\* Tonic builder, tower::discover::Change for the Openssl builder.
BackendEnum(b) == IF b = "Tonic" THEN "tonic::transport::channel::Change"
                  ELSE "tower::discover::Change"

Translate_KeyLost(b, change) ==
    [enum |-> BackendEnum(b), tag |-> change.tag, key |-> "lost", val |-> change.val]

\* match change { Insert(k, v) => B::Insert(k, v), Remove(k) => B::Remove(k) }
Translate(b, change) ==
    CASE change.tag = "Insert" ->
           [enum |-> BackendEnum(b), tag |-> "Insert", key |-> change.key, val |-> change.val]
      [] change.tag = "Remove" ->
           [enum |-> BackendEnum(b), tag |-> "Remove", key |-> change.key, val |-> NoVal]

NoChange == [enum |-> "None", tag |-> "None", key |-> "-", val |-> "-"]

SinkCapacity_OffByOne(n) == n + 1

\* tokio::sync::mpsc::channel(buffer_size)
SinkCapacity(n) == n

\* Channel::balance_channel(buffer_size) for Tonic; the Openssl backend's
\* queue is made by crate::openssl_tls::balanced_channel(self.conn), which
\* takes no size: any capacity c.
BackendCapacity(b, n, c) == IF b = "Tonic" THEN n ELSE c

BridgeStart_NotSpawned(b) == "absent"

\* tokio::spawn(async move { while let Some(change) = rx.recv().await ... })
BridgeStart(b) == IF b = "Custom" THEN "absent" ELSE "recv"

\* Ok((Channel::Tonic(chan), bridge_tx)) / Ok((Channel::Openssl(chan), bridge_tx))
NewChannel(b) == [tag |-> b]

\* ------------------------------------------------------------------ Init

\* The state when the builder returns (Tonic, Openssl), or when a Channel
\* made outside is wrapped as Channel::Custom (no sink, no bridge).
Init ==
    /\ builder \in Builders
    /\ buffer_size \in 1..MaxBuf
    /\ \E c \in 1..MaxBuf : bqCap = BackendCapacity(builder, buffer_size, c)
    /\ sinkq = <<>>
    /\ rxAlive = (builder # "Custom")
    /\ pubSt = [p \in Pubs |-> IF builder = "Custom" THEN "dropped" ELSE "idle"]
    /\ pubEv = [p \in Pubs |-> None]
    /\ pc = BridgeStart(builder)
    /\ held = NoChange
    /\ bq = <<>>
    /\ bqClosed = FALSE
    /\ chans = <<NewChannel(builder)>>
    /\ readyOut = [kind |-> "None", shape |-> "-", val |-> "-"]
    /\ futs = <<>>
    /\ handles = <<>>
    /\ readyIn = <<>>
    /\ accepted = <<>>
    /\ nRecv = 0
    /\ fwdLog = <<>>

\* ------------------------------------------------- publishers (the sink)

\* Events handed to send so far: accepted ones and those of suspended sends.
Offered == Len(accepted) + Cardinality({p \in Pubs : pubSt[p] = "suspended"})

\* bridge_tx.send(e).await on a handle that is not in a send: Err when rx is
\* gone, Ok at once when the queue has room, otherwise the send suspends.
PubSend(p, e) ==
    /\ pubSt[p] \in {"idle", "failed"}
    /\ Offered < MaxEvents
    /\ \/ /\ ~rxAlive
          /\ pubSt' = [pubSt EXCEPT ![p] = "failed"]
          /\ UNCHANGED <<sinkq, pubEv, accepted>>
       \/ /\ rxAlive
          /\ Len(sinkq) < SinkCapacity(buffer_size)
          /\ sinkq' = Append(sinkq, e)
          /\ accepted' = Append(accepted, e)
          /\ pubSt' = [pubSt EXCEPT ![p] = "idle"]
          /\ UNCHANGED pubEv
       \/ /\ rxAlive
          /\ Len(sinkq) >= SinkCapacity(buffer_size)
          /\ pubSt' = [pubSt EXCEPT ![p] = "suspended"]
          /\ pubEv' = [pubEv EXCEPT ![p] = e]
          /\ UNCHANGED <<sinkq, accepted>>
    /\ UNCHANGED <<rxAlive, pc, held, bq, bqClosed, nRecv, fwdLog>>
    /\ UNCHANGED <<cfgVars, chanVars>>

\* A suspended send is woken: room in the queue completes it with Ok, a
\* dropped rx completes it with Err.
PubResume(p) ==
    /\ pubSt[p] = "suspended"
    /\ \/ /\ rxAlive
          /\ Len(sinkq) < SinkCapacity(buffer_size)
          /\ sinkq' = Append(sinkq, pubEv[p])
          /\ accepted' = Append(accepted, pubEv[p])
          /\ pubSt' = [pubSt EXCEPT ![p] = "idle"]
       \/ /\ ~rxAlive
          /\ pubSt' = [pubSt EXCEPT ![p] = "failed"]
          /\ UNCHANGED <<sinkq, accepted>>
    /\ pubEv' = [pubEv EXCEPT ![p] = None]
    /\ UNCHANGED <<rxAlive, pc, held, bq, bqClosed, nRecv, fwdLog>>
    /\ UNCHANGED <<cfgVars, chanVars>>

\* An EndpointUpdater handle is dropped (not while its send is pending: the
\* send future borrows the handle).
PubDrop(p) ==
    /\ pubSt[p] \in {"idle", "failed"}
    /\ pubSt' = [pubSt EXCEPT ![p] = "dropped"]
    /\ UNCHANGED <<sinkq, rxAlive, pubEv, pc, held, bq, bqClosed, accepted, nRecv, fwdLog>>
    /\ UNCHANGED <<cfgVars, chanVars>>

\* ------------------------------------------------------ the bridge task

NoProducers == \A p \in Pubs : pubSt[p] = "dropped"

BridgeExit_KeepRx ==
    /\ pc' = "done"
    /\ held' = NoChange
    /\ UNCHANGED <<rxAlive, sinkq>>

\* The task's future completes: everything it owns (rx, tx, change) is
\* dropped, and with rx the events still queued in the sink.
BridgeExit ==
    /\ pc' = "done"
    /\ held' = NoChange
    /\ rxAlive' = FALSE
    /\ sinkq' = <<>>

BridgeRecv_ExitOnClose ==
    /\ pc = "recv"
    /\ \/ /\ sinkq # <<>>
          /\ ~NoProducers
          /\ held' = Translate(builder, Head(sinkq))
          /\ sinkq' = Tail(sinkq)
          /\ nRecv' = nRecv + 1
          /\ pc' = "send"
          /\ UNCHANGED rxAlive
       \/ /\ NoProducers
          /\ BridgeExit
          /\ UNCHANGED nRecv
    /\ UNCHANGED <<pubSt, pubEv, bq, bqClosed, accepted, fwdLog>>
    /\ UNCHANGED <<cfgVars, chanVars>>

BridgeRecv_ReadAhead ==
    /\ \/ /\ pc \in {"recv", "send"}
          /\ sinkq # <<>>
          /\ held' = Translate(builder, Head(sinkq))
          /\ sinkq' = Tail(sinkq)
          /\ nRecv' = nRecv + 1
          /\ pc' = "send"
          /\ UNCHANGED rxAlive
       \/ /\ pc = "recv"
          /\ sinkq = <<>>
          /\ NoProducers
          /\ BridgeExit
          /\ UNCHANGED nRecv
    /\ UNCHANGED <<pubSt, pubEv, bq, bqClosed, accepted, fwdLog>>
    /\ UNCHANGED <<cfgVars, chanVars>>

BridgeRecv_NoExit ==
    /\ pc = "recv"
    /\ sinkq # <<>>
    /\ held' = Translate(builder, Head(sinkq))
    /\ sinkq' = Tail(sinkq)
    /\ nRecv' = nRecv + 1
    /\ pc' = "send"
    /\ UNCHANGED <<rxAlive, pubSt, pubEv, bq, bqClosed, accepted, fwdLog>>
    /\ UNCHANGED <<cfgVars, chanVars>>

\* while let Some(change) = rx.recv().await { let change = match change {..};
\* Some: the head of the queue is taken and translated, and tx.send(change)
\* is called.  None (queue empty, every handle dropped): the loop ends.
BridgeRecv ==
    /\ pc = "recv"
    /\ \/ /\ sinkq # <<>>
          /\ held' = Translate(builder, Head(sinkq))
          /\ sinkq' = Tail(sinkq)
          /\ nRecv' = nRecv + 1
          /\ pc' = "send"
          /\ UNCHANGED rxAlive
       \/ /\ sinkq = <<>>
          /\ NoProducers
          /\ BridgeExit
          /\ UNCHANGED nRecv
    /\ UNCHANGED <<pubSt, pubEv, bq, bqClosed, accepted, fwdLog>>
    /\ UNCHANGED <<cfgVars, chanVars>>

Attempt(res) == [id |-> nRecv, ev |-> held, res |-> res]

BridgeForward_Retry ==
    /\ pc = "send"
    /\ \/ /\ ~bqClosed
          /\ Len(bq) < bqCap
          /\ bq' = Append(bq, held)
          /\ fwdLog' = Append(fwdLog, Attempt("ok"))
          /\ held' = NoChange
          /\ pc' = "recv"
          /\ UNCHANGED <<rxAlive, sinkq>>
       \/ /\ bqClosed
          /\ Len(fwdLog) < MaxEvents + 1
          /\ fwdLog' = Append(fwdLog, Attempt("err"))
          /\ UNCHANGED <<pc, held, rxAlive, sinkq, bq>>
    /\ UNCHANGED <<pubSt, pubEv, bqClosed, accepted, nRecv>>
    /\ UNCHANGED <<cfgVars, chanVars>>

BridgeForward_Continue ==
    /\ pc = "send"
    /\ \/ /\ ~bqClosed
          /\ Len(bq) < bqCap
          /\ bq' = Append(bq, held)
          /\ fwdLog' = Append(fwdLog, Attempt("ok"))
       \/ /\ bqClosed
          /\ fwdLog' = Append(fwdLog, Attempt("err"))
          /\ UNCHANGED bq
    /\ held' = NoChange
    /\ pc' = "recv"
    /\ UNCHANGED <<rxAlive, sinkq, pubSt, pubEv, bqClosed, accepted, nRecv>>
    /\ UNCHANGED <<cfgVars, chanVars>>

BridgeForward_TrySend ==
    /\ pc = "send"
    /\ \/ /\ ~bqClosed
          /\ Len(bq) < bqCap
          /\ bq' = Append(bq, held)
          /\ fwdLog' = Append(fwdLog, Attempt("ok"))
          /\ held' = NoChange
          /\ pc' = "recv"
          /\ UNCHANGED <<rxAlive, sinkq>>
       \/ /\ ~bqClosed
          /\ Len(bq) >= bqCap
          /\ held' = NoChange
          /\ pc' = "recv"
          /\ UNCHANGED <<rxAlive, sinkq, bq, fwdLog>>
       \/ /\ bqClosed
          /\ fwdLog' = Append(fwdLog, Attempt("err"))
          /\ BridgeExit
          /\ UNCHANGED bq
    /\ UNCHANGED <<pubSt, pubEv, bqClosed, accepted, nRecv>>
    /\ UNCHANGED <<cfgVars, chanVars>>

\* if let Err(_) = tx.send(change).await { break; }
\* The send completes with Ok once the backend queue has room (the loop goes
\* back to rx.recv()), with Err once the backend's receiver is gone (break:
\* the change goes with the error, the task ends).  While the queue is full
\* and open the send stays suspended.
BridgeForward ==
    /\ pc = "send"
    /\ \/ /\ ~bqClosed
          /\ Len(bq) < bqCap
          /\ bq' = Append(bq, held)
          /\ fwdLog' = Append(fwdLog, Attempt("ok"))
          /\ held' = NoChange
          /\ pc' = "recv"
          /\ UNCHANGED <<rxAlive, sinkq>>
       \/ /\ bqClosed
          /\ fwdLog' = Append(fwdLog, Attempt("err"))
          /\ BridgeExit
          /\ UNCHANGED bq
    /\ UNCHANGED <<pubSt, pubEv, bqClosed, accepted, nRecv>>
    /\ UNCHANGED <<cfgVars, chanVars>>

\* ------------------------------------------------- the backend's queue end

\* The backend takes the next update off its queue (the discover stream
\* handed to the balancer by balance_channel / openssl_tls::balanced_channel).
BackendDrain ==
    /\ ~bqClosed
    /\ bq # <<>>
    /\ bq' = Tail(bq)
    /\ UNCHANGED <<sinkq, rxAlive, pubSt, pubEv, pc, held, bqClosed, accepted, nRecv, fwdLog>>
    /\ UNCHANGED <<cfgVars, chanVars>>

\* The Channel is torn down: the backend drops the receiving end of its
\* update queue, and what was queued goes with it.
BackendClose ==
    /\ builder # "Custom"
    /\ ~bqClosed
    /\ bqClosed' = TRUE
    /\ bq' = <<>>
    /\ UNCHANGED <<sinkq, rxAlive, pubSt, pubEv, pc, held, accepted, nRecv, fwdLog>>
    /\ UNCHANGED <<cfgVars, chanVars>>

\* ------------------------------------------------ Channel / ChannelFuture

NoOutcome == [kind |-> "None", shape |-> "-", val |-> "-"]

\* The error type of each backend's Service impl: tonic::transport::Error
\* for tonic::transport::Channel, tower::BoxError for the other two.
NativeErr(tag) == IF tag = "Tonic" THEN "tonic::transport::Error" ELSE "BoxError"

\* What a backend's poll_ready may answer: Pending, Ready(Ok(())), Ready(Err(e)).
ReadyOutcomes(tag) ==
    { [kind |-> "Pending", shape |-> "-", val |-> "-"],
      [kind |-> "Ok", shape |-> "-", val |-> "()"],
      [kind |-> "Err", shape |-> NativeErr(tag), val |-> "e"] }

\* What a backend's call future may answer when polled.
PollOutcomes(tag) ==
    { [kind |-> "Pending", shape |-> "-", val |-> "-"],
      [kind |-> "Ok", shape |-> "-", val |-> "resp"],
      [kind |-> "Err", shape |-> NativeErr(tag), val |-> "e"] }

\* result.map_err(|e| Box::new(e) as tower::BoxError)
BoxErr(o) == IF o.kind = "Err" THEN [o EXCEPT !.shape = "BoxError"] ELSE o

Clone_AsCustom(c) == [tag |-> "Custom"]

\* #[derive(Clone)] pub enum Channel: the clone is of the same variant.
Clone(c) ==
    CASE c.tag = "Tonic" -> [tag |-> "Tonic"]
      [] c.tag = "Openssl" -> [tag |-> "Openssl"]
      [] c.tag = "Custom" -> [tag |-> "Custom"]

PollReady_ErrAsReady(c, o) ==
    IF o.kind = "Err" THEN [kind |-> "Ok", shape |-> "-", val |-> "()"] ELSE o

\* <Channel as Service>::poll_ready: the value returned for backend answer o.
PollReady(c, o) ==
    CASE c.tag = "Tonic" -> IF o.kind = "Pending" THEN o ELSE BoxErr(o)
      [] c.tag = "Openssl" -> o
      [] c.tag = "Custom" -> o

\* channel.call(req) / openssl.call(req) / custom.call(req): the active
\* backend makes one future of its own kind, not yet polled.
BackendCall(c) == [tag |-> c.tag, last |-> NoOutcome]

Call_WrongVariant(c) == [tag |-> "Custom", st |-> "Polling", out |-> NoOutcome]

\* <Channel as Service>::call: ChannelFuture::from_tonic / from_openssl /
\* from_custom of the backend's future.
Call(c) ==
    CASE c.tag = "Tonic" -> [tag |-> "Tonic", st |-> "Polling", out |-> NoOutcome]
      [] c.tag = "Openssl" -> [tag |-> "Openssl", st |-> "Polling", out |-> NoOutcome]
      [] c.tag = "Custom" -> [tag |-> "Custom", st |-> "Polling", out |-> NoOutcome]

Poll_LayerError(f, o) ==
    IF o.kind = "Ok" THEN [kind |-> "Err", shape |-> "BoxError", val |-> "e"] ELSE BoxErr(o)

Poll_ErrStaysPending(f, o) ==
    IF o.kind = "Err" THEN [kind |-> "Pending", shape |-> "-", val |-> "-"] ELSE o

\* <ChannelFuture as Future>::poll: the value returned for backend answer o.
Poll(f, o) ==
    CASE f.tag = "Tonic" -> IF o.kind = "Pending" THEN o ELSE BoxErr(o)
      [] f.tag = "Openssl" -> o
      [] f.tag = "Custom" -> o

ChanClone(i) ==
    /\ Len(chans) < 1 + MaxClones
    /\ chans' = Append(chans, Clone(chans[i]))
    /\ UNCHANGED <<readyOut, futs, handles, readyIn>>
    /\ UNCHANGED <<cfgVars, bridgeVars>>

ChanPollReady_Retry(i, o) ==
    /\ \E o2 \in ReadyOutcomes(chans[i].tag) :
          IF o.kind = "Err"
          THEN readyIn' = <<o, o2>> /\ readyOut' = PollReady(chans[i], o2)
          ELSE readyIn' = <<o>> /\ readyOut' = PollReady(chans[i], o)
    /\ UNCHANGED <<chans, futs, handles>>
    /\ UNCHANGED <<cfgVars, bridgeVars>>

\* poll_ready(&mut self, cx): the match borrows self and leaves the variant;
\* the active backend's poll_ready is called once and its answer o returned
\* through PollReady.
ChanPollReady(i, o) ==
    /\ readyIn' = <<o>>
    /\ readyOut' = PollReady(chans[i], o)
    /\ UNCHANGED <<chans, futs, handles>>
    /\ UNCHANGED <<cfgVars, bridgeVars>>

\* call(&mut self, req): one call on the active backend, its future wrapped.
ChanCall(i) ==
    /\ Len(futs) < MaxCalls
    /\ handles' = Append(handles, BackendCall(chans[i]))
    /\ futs' = Append(futs, Call(chans[i]))
    /\ UNCHANGED <<chans, readyOut, readyIn>>
    /\ UNCHANGED <<cfgVars, bridgeVars>>

\* One resumption of a ChannelFuture that has not completed: the backend
\* future it owns is polled once and answers o.
FutPoll(j, o) ==
    /\ futs[j].st = "Polling"
    /\ handles' = [handles EXCEPT ![j].last = o]
    /\ LET r == Poll(futs[j], o)
       IN futs' = [futs EXCEPT ![j] =
                     IF r.kind = "Pending" THEN @
                     ELSE [@ EXCEPT !.st = "Done", !.out = r]]
    /\ UNCHANGED <<chans, readyOut, readyIn>>
    /\ UNCHANGED <<cfgVars, bridgeVars>>

\* ------------------------------------------------------- specifications

Next ==
    \/ \E p \in Pubs, e \in Change : PubSend(p, e)
    \/ \E p \in Pubs : PubResume(p)
    \/ \E p \in Pubs : PubDrop(p)
    \/ BridgeRecv
    \/ BridgeForward
    \/ BackendDrain
    \/ BackendClose
    \/ \E i \in 1..Len(chans) : ChanClone(i)
    \/ \E i \in 1..Len(chans) : \E o \in ReadyOutcomes(chans[i].tag) : ChanPollReady(i, o)
    \/ \E i \in 1..Len(chans) : ChanCall(i)
    \/ \E j \in 1..Len(futs) : \E o \in PollOutcomes(futs[j].tag) : FutPoll(j, o)

Spec == Init /\ [][Next]_vars

\* The sink, the bridge task and the backend's queue on their own: the
\* bridge closure owns rx and tx only, the Channel is not touched.
BridgeNext ==
    \/ \E p \in Pubs, e \in Change : PubSend(p, e)
    \/ \E p \in Pubs : PubResume(p)
    \/ \E p \in Pubs : PubDrop(p)
    \/ BridgeRecv
    \/ BridgeForward
    \/ BackendDrain
    \/ BackendClose

BridgeSpec == Init /\ [][BridgeNext]_vars

\* The Channel and its futures on their own.
ChanNext ==
    \/ \E i \in 1..Len(chans) : ChanClone(i)
    \/ \E i \in 1..Len(chans) : \E o \in ReadyOutcomes(chans[i].tag) : ChanPollReady(i, o)
    \/ \E i \in 1..Len(chans) : ChanCall(i)
    \/ \E j \in 1..Len(futs) : \E o \in PollOutcomes(futs[j].tag) : FutPoll(j, o)

ChanSpec == Init /\ [][ChanNext]_vars

\* The bridge is a spawned tokio task: the runtime runs it whenever it can
\* make progress.  Nothing obliges publishers or the backend to act.
BridgeFair == BridgeSpec /\ WF_vars(BridgeRecv) /\ WF_vars(BridgeForward)

\* ---------------------------------------------------------------- claims

IsOk(a) == a.res = "ok"

\* The backend's event with its enum forgotten: the generic Change it came from.
Untag(ev) == [tag |-> ev.tag, key |-> ev.key, val |-> ev.val]

\* The events delivered into the backend update queue, in delivery order.
DeliveredNative == [i \in 1..Len(SelectSeq(fwdLog, IsOk)) |-> SelectSeq(fwdLog, IsOk)[i].ev]

Delivered == [i \in 1..Len(DeliveredNative) |-> Untag(DeliveredNative[i])]

IsPrefix(s, t) == Len(s) <= Len(t) /\ \A i \in 1..Len(s) : s[i] = t[i]

IsSuffix(s, t) ==
    Len(s) <= Len(t) /\ \A i \in 1..Len(s) : s[i] = t[Len(t) - Len(s) + i]

HasBridge == builder # "Custom"

Terminated == pc = "done"

\* The event the bridge holds between rx.recv() and the end of tx.send().
HeldSeq == IF pc = "send" THEN <<Untag(held)>> ELSE <<>>

AllForwardsOk == \A i \in 1..Len(fwdLog) : fwdLog[i].res = "ok"

\* C1: the events delivered into the backend queue are, un-tagged, a prefix
\* of the events the sink accepted (same order, none skipped, merged or
\* altered), each carries the backend's own enum, and the backend queue
\* holds the most recently delivered ones in delivery order.
C1_ForwardedInOrder ==
    /\ IsPrefix(Delivered, accepted)
    /\ \A i \in 1..Len(DeliveredNative) : DeliveredNative[i].enum = BackendEnum(builder)
    /\ IsSuffix(bq, DeliveredNative)

C1_Witness ==
    /\ Len(Delivered) >= 3
    /\ Delivered[1].tag = "Insert" /\ Delivered[2].tag = "Remove"
    /\ Delivered[3].tag = "Insert"
    /\ Len(accepted) > Len(Delivered)

\* C2: every received event gets exactly one forward attempt: the attempts
\* completed so far are those for events 1..n in order, with the event the
\* bridge holds being the only one whose attempt is still open, and no
\* event is delivered into the backend queue twice.
C2_AtMostOnce ==
    /\ \A i \in 1..Len(fwdLog) : fwdLog[i].id = i
    /\ Len(fwdLog) = nRecv - (IF pc = "send" THEN 1 ELSE 0)
    /\ \A i \in 1..Len(fwdLog) : fwdLog[i].res = "err" => i = Len(fwdLog) /\ Terminated
    /\ Len(Delivered) <= nRecv

C2_Witness ==
    /\ Len(fwdLog) >= 2
    /\ fwdLog[Len(fwdLog)].res = "err"
    /\ fwdLog[1].res = "ok"
    /\ Terminated

\* The bridge is suspended in tx.send: the backend queue is full and open.
ForwardBlocked == pc = "send" /\ ~bqClosed /\ Len(bq) >= bqCap

\* C3 as stated: once no producer handle remains, the bridge eventually
\* terminates, from any state.
C3_Original == (HasBridge /\ NoProducers) ~> Terminated

\* C3 amended: once no producer handle remains, the bridge eventually
\* terminates, unless it stays suspended for ever in a forward into a
\* backend queue that is full and is neither drained nor closed.
C3_Amended == ([]<>(~ForwardBlocked)) => ((HasBridge /\ NoProducers) ~> Terminated)

C3_Witness ==
    /\ HasBridge /\ NoProducers /\ Terminated
    /\ ~bqClosed
    /\ Len(fwdLog) >= 2 /\ AllForwardsOk

\* C4: when the backend queue is closed while the bridge is in tx.send, the
\* bridge's next step completes that send with a failure (nothing is added
\* to the backend queue) and ends the task; a terminated bridge never
\* receives or forwards again; and the bridge does take that step.
C4_TeardownMidForward ==
    /\ [][ /\ (pc = "send" /\ bqClosed /\ (pc' # pc \/ fwdLog' # fwdLog))
              => /\ pc' = "done"
                 /\ Len(fwdLog') = Len(fwdLog) + 1
                 /\ fwdLog'[Len(fwdLog')].res = "err"
                 /\ bq' = bq
           /\ pc = "done" => (pc' = "done" /\ fwdLog' = fwdLog /\ nRecv' = nRecv) ]_vars
    /\ (pc = "send" /\ bqClosed) ~> Terminated

C4_Witness ==
    /\ Terminated /\ bqClosed
    /\ Len(fwdLog) = bqCap + 1
    /\ fwdLog[Len(fwdLog)].res = "err"
    /\ Len(accepted) > Len(fwdLog)

\* C5 (the half the code does not keep): once the backend update queue is
\* closed, the bridge eventually terminates.
C5_ClosedBackendEndsBridge == (HasBridge /\ bqClosed) ~> Terminated

\* Every accepted event is delivered, held by the bridge or queued in the sink.
NoLoss == accepted = Delivered \o HeldSeq \o sinkq

\* C6 as stated: no accepted event is ever lost, in every reachable state.
C6_Original == HasBridge => NoLoss

\* C6 amended: no accepted event is lost in any state in which no forward
\* has failed; the sink never holds more than buffer_size events and a
\* publisher is suspended only with its event still in hand.
C6_Amended ==
    /\ (HasBridge /\ AllForwardsOk) => NoLoss
    /\ \A p \in Pubs : pubSt[p] = "suspended" <=> pubEv[p] # None

C6_Witness ==
    /\ \E p \in Pubs : pubSt[p] = "suspended"
    /\ ForwardBlocked
    /\ Len(sinkq) = buffer_size
    /\ AllForwardsOk

C8_VariantFixed ==
    /\ Len(chans) >= 1
    /\ \A i \in 1..Len(chans) : chans[i] = NewChannel(builder)

C8_Witness ==
    /\ Len(chans) = 2
    /\ readyOut.kind = "Err"
    /\ Len(futs) = 1 /\ futs[1].st = "Done"
    /\ Len(fwdLog) >= 1
    /\ builder = "Openssl"

\* C9: the first send into the sink neither suspends nor fails, and once an
\* event has been accepted the bridge forwards it into the backend queue
\* unless that queue has been closed.
C9_LiveOnReturn ==
    /\ []((HasBridge /\ accepted = <<>>) => \A p \in Pubs : pubSt[p] \in {"idle", "dropped"})
    /\ (HasBridge /\ Len(accepted) >= 1) ~> (Len(Delivered) >= 1 \/ bqClosed)

C9_Witness ==
    /\ buffer_size = 1
    /\ Len(accepted) = 1
    /\ Len(Delivered) = 1
    /\ ~bqClosed

Terminal(o) == o.kind \in {"Ok", "Err"}

\* What crossing the Channel boundary may do to a backend answer o of a
\* backend of variant tag: nothing, except boxing a Tonic error.
Crossed(tag, o, r) ==
    /\ r.kind = o.kind
    /\ r.val = o.val
    /\ o.kind = "Err" => r.shape = "BoxError"
    /\ (tag # "Tonic" \/ o.kind # "Err") => r = o

\* C11: the last poll_ready returned its backend's answer, and every
\* ChannelFuture reports its backend future's answer, unchanged in class
\* and value: pending as pending, Ok as the same Ok, Err as Err (boxed for
\* Tonic, as it is for Openssl and Custom).
C11_PassThrough ==
    /\ readyIn # <<>> => Crossed(builder, readyIn[Len(readyIn)], readyOut)
    /\ \A j \in 1..Len(futs) :
          /\ Terminal(handles[j].last) => Crossed(futs[j].tag, handles[j].last, futs[j].out)
          /\ ~Terminal(handles[j].last) => futs[j].out = NoOutcome /\ futs[j].st = "Polling"

C11_Witness ==
    /\ builder = "Tonic"
    /\ readyIn = <<[kind |-> "Err", shape |-> "tonic::transport::Error", val |-> "e"]>>
    /\ readyOut = [kind |-> "Err", shape |-> "BoxError", val |-> "e"]
    /\ Len(futs) = 1
    /\ handles[1].last.shape = "tonic::transport::Error"
    /\ futs[1].out.shape = "BoxError"

\* C14: a call yields a ChannelFuture of the Channel's variant owning one
\* backend future of that variant; the variant of a ChannelFuture never
\* changes, and a resumption polls the backend future of the resumed
\* ChannelFuture and no other.
C14_Dispatch ==
    /\ [](/\ Len(handles) = Len(futs)
          /\ \A j \in 1..Len(futs) : futs[j].tag = builder /\ handles[j].tag = futs[j].tag)
    /\ [][ \A j \in 1..Len(futs) :
              /\ futs'[j].tag = futs[j].tag
              /\ handles'[j] # handles[j]
                    => /\ futs[j].st = "Polling"
                       /\ \A k \in 1..Len(futs) : k # j =>
                             (handles'[k] = handles[k] /\ futs'[k] = futs[k]) ]_vars

C14_Witness ==
    /\ builder = "Openssl"
    /\ Len(chans) = 2
    /\ Len(futs) = 1 /\ futs[1].tag = "Openssl"
    /\ handles[1].last.kind = "Ok"

\* C16: a ChannelFuture ends in an error only when its backend future
\* answered an error, and ends in the backend's Ok when that answered Ok.
C16_OnlyBackendFailures ==
    \A j \in 1..Len(futs) :
       /\ futs[j].out.kind = "Err" => handles[j].last.kind = "Err"
       /\ handles[j].last.kind = "Ok" => futs[j].out = handles[j].last

C16_Witness ==
    /\ readyOut.kind = "Ok"
    /\ Len(futs) = 1
    /\ futs[1].st = "Done" /\ futs[1].out.kind = "Ok"

\* C17: a ChannelFuture is Polling or Done; it is Done exactly when its
\* backend future has answered a terminal result, which it then holds, and
\* once Done it never changes.
C17_PollingThenDone ==
    /\ [](\A j \in 1..Len(futs) :
             /\ futs[j].st \in {"Polling", "Done"}
             /\ futs[j].st = "Done" <=> Terminal(handles[j].last)
             /\ futs[j].st = "Done" <=> Terminal(futs[j].out))
    /\ [][ \A j \in 1..Len(futs) :
              futs[j].st = "Done" => (futs'[j] = futs[j] /\ handles'[j] = handles[j]) ]_vars

C17_Witness ==
    /\ Len(futs) = 1
    /\ futs[1].st = "Polling"
    /\ handles[1].last.kind = "Pending"
    /\ builder = "Tonic"

ForwardFailed == \E i \in 1..Len(fwdLog) : fwdLog[i].res = "err"

\* C13: the step in which a forward fails ends the bridge and touches
\* nothing a publisher can see (no handle state, no accepted event, nothing
\* in the backend queue); after a failed forward the bridge receives
\* nothing more and forwards nothing more.
C13_FailedForwardEndsBridge ==
    /\ [][ (Len(fwdLog') > Len(fwdLog) /\ fwdLog'[Len(fwdLog')].res = "err")
             => (pc' = "done" /\ pubSt' = pubSt /\ pubEv' = pubEv
                 /\ accepted' = accepted /\ bq' = bq) ]_vars
    /\ [][ ForwardFailed
             => (pc' = "done" /\ nRecv' = nRecv /\ fwdLog' = fwdLog /\ bq' = bq) ]_vars

C13_Witness ==
    /\ ForwardFailed
    /\ Terminated
    /\ Len(accepted) = 3
    /\ Len(fwdLog) = 1
    /\ \A p \in Pubs : pubSt[p] = "idle"

\* C15: a call has made exactly one backend future, a readiness poll has
\* consumed exactly one backend answer, a completed backend future is not
\* polled again, and a forward attempt is never repeated for an event.
C15_NoInternalRetry ==
    /\ [](/\ Len(handles) = Len(futs)
          /\ Len(readyIn) <= 1
          /\ \A i \in 1..Len(fwdLog) : fwdLog[i].id = i
          /\ ForwardFailed => Terminated)
    /\ [][ \A j \in 1..Len(handles) :
              Terminal(handles[j].last) => handles'[j] = handles[j] ]_vars

C15_Witness ==
    /\ readyOut.kind = "Err"
    /\ Len(futs) = 1 /\ futs[1].out.kind = "Err"
    /\ ForwardFailed
    /\ builder = "Tonic"

\* C18: the bridge leaves its loop on a closed sink only after it has
\* forwarded every accepted event, and once no producer remains it does so,
\* provided the backend queue stays open and does not stay full for ever.
C18_DrainsBeforeExit ==
    /\ []((Terminated /\ AllForwardsOk) => (NoProducers /\ Delivered = accepted))
    /\ (([]<>(~ForwardBlocked)) /\ [](~bqClosed))
          => ((HasBridge /\ NoProducers) ~> (Terminated /\ Delivered = accepted))

C18_Witness ==
    /\ Terminated /\ NoProducers /\ ~bqClosed
    /\ Len(accepted) = 4
    /\ Delivered = accepted
    /\ buffer_size = 2

\* C19: once the bridge has terminated, rx is gone and the sink is empty;
\* a suspended send can be completed, and only with a failure; no send is
\* accepted and no publisher becomes suspended.
C19_PublishersReleased ==
    /\ [](Terminated => (~rxAlive /\ sinkq = <<>>))
    /\ [](\A p \in Pubs : (Terminated /\ pubSt[p] = "suspended") => ENABLED PubResume(p))
    /\ [][ Terminated
             => /\ accepted' = accepted
                /\ \A p \in Pubs : pubSt'[p] # pubSt[p] => pubSt'[p] \in {"failed", "dropped"} ]_vars

C19_Witness ==
    /\ Terminated /\ bqClosed /\ ForwardFailed
    /\ pubSt["p1"] = "failed"
    /\ pubSt["p2"] = "suspended"

\* C20: the bridge has at most one received event whose forward is not
\* complete, and it holds one only while in tx.send; so at most
\* buffer_size + 1 accepted events are not yet delivered.
C20_NoReadAhead ==
    /\ nRecv <= Len(fwdLog) + 1
    /\ pc # "send" => (nRecv = Len(fwdLog) /\ held = NoChange)
    /\ Len(accepted) <= Len(Delivered) + buffer_size + 1

C20_Witness ==
    /\ buffer_size = 2
    /\ ForwardBlocked
    /\ Len(accepted) = Len(Delivered) + 3

====
